---- MODULE Spec2Model ----
(***************************************************************************)
(* Model of torch/csrc/jit/codegen/cuda/interface.cpp: the NVFuserEnabler  *)
(* (three sources of the "enabled" value plus the NNC force-disable), the  *)
(* nvfuser flags, the CudaFuserInterface forwarding functions and the      *)
(* type guard complyWith; of the string parsers parseKind and              *)
(* parseAliasAnalysisKind of torch/csrc/utils/python_dispatch.cpp; and of  *)
(* the index loop of _vec_softmax in                                       *)
(* aten/src/ATen/native/cpu/SoftMaxKernel.cpp.                             *)
(***************************************************************************)
EXTENDS Integers, Sequences, FiniteSets, TLC

VARIABLES
  runtime_assigned_fuser_enabled_, \* c10::optional<bool> of NVFuserEnabler
  enabled_check_flag_,             \* std::once_flag: TRUE once call_once returned
  enable_c_str,                    \* static of getFuserEnabledEnvVar
  default_enabled,                 \* static of getCachedFuserEnabledEnvVar
  env_c_str,                       \* static of getNNCNotNVFuser
  force_disable,                   \* static of getCachedNNCNotNVFuser
  environ,                         \* the process environment read by getenv
  FBCODE_CAFFE2,                   \* build macro, fixed for a run
  USE_ROCM,                        \* build macro, fixed for a run
  hasCUDA,                         \* at::globalContext().hasCUDA()
  passManagerRegistered,           \* NVFuserPassManager::isRegistered()
  executorMode,                    \* getExecutorMode()
  FLAGS_torch_jit_nvfuser_singleton_fusion,
  FLAGS_torch_jit_nvfuser_horizontal_fusion,
  cuda_fusion_guard_mode,
  fuser_interface_,                \* fn pointer name -> registered (non-null)
  stack,                           \* the interpreter Stack handed to runFusionGroup
  op,                              \* the API function called by the last step
  arg,                             \* its boolean argument (setters)
  target,                          \* its node / graph / symbol argument
  outcome,                         \* "none" | "return" | "void" | "throw"
  ret,                             \* value returned when outcome = "return"
  error,                           \* message thrown when outcome = "throw"
  calls,                           \* backend functions invoked by the last step
  tensor,                          \* complyWith: the runtime at::Tensor
  grad_mode,                       \* at::GradMode::is_enabled()
  guard_tensor_type,               \* complyWith: the profiled c10::TensorType
  kind_map,                        \* static of parseKind
  key_map,                         \* static of parseAliasAnalysisKind
  outer_size,                      \* _vec_softmax: product of the dims before dim
  inner_size,                      \* _vec_softmax: product of the dims after dim
  vectorized_step,                 \* _vec_softmax: Vec().size()
  begin,                           \* first flat index of the parallel_for task
  end,                             \* one past its last flat index
  idx,                             \* the loop variable of the task
  handled,                         \* flat indices whose softmax was stored, in order
  step_kind,                       \* branch of the last iteration: "vector" | "tail"
  step_idx                         \* idx at the start of the last iteration

enablerVars == <<runtime_assigned_fuser_enabled_, enabled_check_flag_,
                 enable_c_str, default_enabled, env_c_str, force_disable>>
worldVars == <<environ, FBCODE_CAFFE2, USE_ROCM, hasCUDA,
               passManagerRegistered, executorMode>>
flagVars == <<FLAGS_torch_jit_nvfuser_singleton_fusion,
              FLAGS_torch_jit_nvfuser_horizontal_fusion, cuda_fusion_guard_mode>>
callVars == <<op, arg, target, outcome, ret, error, calls>>
guardVars == <<tensor, grad_mode, guard_tensor_type>>
dispatchVars == <<kind_map, key_map>>
softmaxVars == <<outer_size, inner_size, vectorized_step, begin, end, idx,
                 handled, step_kind, step_idx>>
vars == <<enablerVars, worldVars, flagVars, fuser_interface_, stack, callVars,
          guardVars, dispatchVars, softmaxVars>>

(* c10::optional<T>: the empty sequence is c10::nullopt, <<v>> holds v.    *)
nullopt == <<>>
Some(v) == <<v>>
has_value(o) == o # <<>>
value(o) == o[1]

(* A function-local static: <<>> before its initialiser ran, <<v>> after.  *)
uninitialized == <<>>

ENABLE_NVFUSER == "PYTORCH_JIT_ENABLE_NVFUSER"
USE_NNC_NOT_NVFUSER == "PYTORCH_JIT_USE_NNC_NOT_NVFUSER"
EnvNames == {ENABLE_NVFUSER, USE_NNC_NOT_NVFUSER}
(* Values a variable may hold in the model (nullopt: unset).               *)
EnableValues == {nullopt, Some("0"), Some("OFF"), Some("1"), Some("off")}
NNCValues == {nullopt, Some("1"), Some("ON"), Some("0")}

ERR_CUDA_BUILD == "Running CUDA fuser is only supported on CUDA builds."
ERR_CUDA_FUSER == "Running the CUDA fuser requires a CUDA build."

----------------------------------------------------------------------------
(* NVFuserEnabler                                                          *)

nvfuserCanBeEnabled ==
  IF USE_ROCM THEN FALSE
  ELSE hasCUDA /\ passManagerRegistered /\ executorMode

(* TORCH_CHECK of assertFuserCanBeEnabled: TRUE when the call throws.      *)
assertFuserCanBeEnabledThrows(is_enabled) ==
  IF ~is_enabled THEN FALSE ELSE ~nvfuserCanBeEnabled

(* std::getenv *)
getenv(name) == environ[name]

(* enable_c_str after a call of getFuserEnabledEnvVar: read once.          *)
enable_c_str_read ==
  IF enable_c_str = uninitialized THEN Some(getenv(ENABLE_NVFUSER))
  ELSE enable_c_str

(* Mutant: only "1" and "ON" enable. *)
getFuserEnabledEnvVar_OnlyOn ==
  LET c == value(enable_c_str_read) IN
  IF ~has_value(c) THEN nullopt
  ELSE IF value(c) = "1" \/ value(c) = "ON" THEN Some(TRUE)
  ELSE Some(FALSE)

getFuserEnabledEnvVar ==
  LET c == value(enable_c_str_read) IN
  IF ~has_value(c) THEN nullopt
  ELSE IF value(c) = "0" \/ value(c) = "OFF" THEN Some(FALSE)
  ELSE Some(TRUE)

(* default_enabled after a call of getCachedFuserEnabledEnvVar.            *)
default_enabled_read ==
  IF default_enabled = uninitialized THEN Some(getFuserEnabledEnvVar)
  ELSE default_enabled

getCachedFuserEnabledEnvVar == value(default_enabled_read)

env_c_str_read ==
  IF env_c_str = uninitialized THEN Some(getenv(USE_NNC_NOT_NVFUSER))
  ELSE env_c_str

getNNCNotNVFuser ==
  LET c == value(env_c_str_read) IN
  IF ~has_value(c) THEN FALSE
  ELSE IF value(c) = "1" \/ value(c) = "ON" THEN TRUE
  ELSE FALSE

force_disable_read ==
  IF force_disable = uninitialized THEN Some(getNNCNotNVFuser)
  ELSE force_disable

getCachedNNCNotNVFuser == value(force_disable_read)

(* The lambda of std::call_once runs while the flag is unset. It reads the *)
(* cached variable only when no value was assigned (short-circuit &&).     *)
onceLambdaRuns == ~enabled_check_flag_
onceLambdaReadsEnv ==
  onceLambdaRuns /\ ~has_value(runtime_assigned_fuser_enabled_)
onceLambdaThrows ==
  /\ onceLambdaReadsEnv
  /\ has_value(getCachedFuserEnabledEnvVar)
  /\ assertFuserCanBeEnabledThrows(value(getCachedFuserEnabledEnvVar))

(* Mutant: the environment variable is consulted before the assigned value. *)
isEnabledImplValue_EnvFirst ==
  IF getCachedNNCNotNVFuser THEN FALSE
  ELSE IF has_value(getCachedFuserEnabledEnvVar)
       THEN value(getCachedFuserEnabledEnvVar)
  ELSE IF has_value(runtime_assigned_fuser_enabled_)
       THEN value(runtime_assigned_fuser_enabled_)
  ELSE IF FBCODE_CAFFE2 THEN FALSE
  ELSE nvfuserCanBeEnabled

(* Mutant: the default is "enabled". *)
isEnabledImplValue_DefaultOn ==
  IF getCachedNNCNotNVFuser THEN FALSE
  ELSE IF has_value(runtime_assigned_fuser_enabled_)
       THEN value(runtime_assigned_fuser_enabled_)
  ELSE IF has_value(getCachedFuserEnabledEnvVar)
       THEN value(getCachedFuserEnabledEnvVar)
  ELSE TRUE

(* The value isEnabledImpl returns when call_once does not throw.          *)
isEnabledImplValue ==
  IF getCachedNNCNotNVFuser THEN FALSE
  ELSE IF has_value(runtime_assigned_fuser_enabled_)
       THEN value(runtime_assigned_fuser_enabled_)
  ELSE IF has_value(getCachedFuserEnabledEnvVar)
       THEN value(getCachedFuserEnabledEnvVar)
  ELSE IF FBCODE_CAFFE2 THEN FALSE
  ELSE nvfuserCanBeEnabled

(* Does isEnabledImpl reach the environment-variable cache at all?         *)
isEnabledImplReadsEnv ==
  \/ onceLambdaReadsEnv
  \/ /\ ~onceLambdaThrows
     /\ ~getCachedNNCNotNVFuser
     /\ ~has_value(runtime_assigned_fuser_enabled_)

(* isEnabledImpl as a whole: its outcome and the enabler state it leaves.  *)
isEnabledImplBody(flag_after_throw) ==
  [ throws |-> onceLambdaThrows,
    ret |-> IF onceLambdaThrows THEN FALSE ELSE isEnabledImplValue,
    enabled_check_flag_ |->
      IF onceLambdaThrows THEN flag_after_throw ELSE TRUE,
    enable_c_str |->
      IF isEnabledImplReadsEnv /\ default_enabled = uninitialized
      THEN enable_c_str_read ELSE enable_c_str,
    default_enabled |->
      IF isEnabledImplReadsEnv THEN default_enabled_read ELSE default_enabled,
    env_c_str |->
      IF ~onceLambdaThrows /\ force_disable = uninitialized
      THEN env_c_str_read ELSE env_c_str,
    force_disable |->
      IF ~onceLambdaThrows THEN force_disable_read ELSE force_disable ]

(* Mutant: call_once marks the flag although the lambda threw. *)
isEnabledImpl_FlagOnThrow == isEnabledImplBody(TRUE)

(* std::call_once leaves the flag unset when the callable throws.          *)
isEnabledImpl == isEnabledImplBody(FALSE)

----------------------------------------------------------------------------
(* Steps of the program: one call of an API function each.                 *)

FnNames == {"fn_compile_n", "fn_run_n_s", "fn_fuse_graph", "fn_can_fuse_n",
            "fn_insert_profile_inodes", "fn_profile_n", "fn_skip_n"}
Targets == {"a", "b"}
MaxStack == 1
StackValues == UNION {[1..n -> BOOLEAN] : n \in 0..MaxStack}

NoTensor == [sizes |-> <<>>, strides |-> <<>>, scalar_type |-> "Float",
             device |-> "cuda:0", requires_grad |-> FALSE]
NoGuard == [dim |-> nullopt, scalarType |-> nullopt, device |-> nullopt,
            requiresGrad |-> nullopt, sizes |-> <<>>,
            stride_properties |-> <<>>]

(* State after static construction, before any call.                       *)
InitProgram ==
  /\ runtime_assigned_fuser_enabled_ = nullopt
  /\ enabled_check_flag_ = FALSE
  /\ enable_c_str = uninitialized
  /\ default_enabled = uninitialized
  /\ env_c_str = uninitialized
  /\ force_disable = uninitialized
  /\ FLAGS_torch_jit_nvfuser_singleton_fusion = FALSE
  /\ FLAGS_torch_jit_nvfuser_horizontal_fusion = TRUE
  /\ cuda_fusion_guard_mode = TRUE
  /\ fuser_interface_ = [f \in FnNames |-> FALSE]
  /\ op = "init"
  /\ arg = FALSE
  /\ target = ""
  /\ outcome = "none"
  /\ ret = FALSE
  /\ error = ""
  /\ calls = <<>>
  /\ kind_map = uninitialized
  /\ key_map = uninitialized

(* No _vec_softmax task is running.                                        *)
NoTask ==
  /\ outer_size = 0
  /\ inner_size = 1
  /\ vectorized_step = 1
  /\ begin = 0
  /\ end = 0
  /\ idx = 0
  /\ handled = <<>>
  /\ step_kind = "none"
  /\ step_idx = 0

Init ==
  /\ InitProgram
  /\ NoTask
  /\ environ \in {e \in [EnvNames -> EnableValues \cup NNCValues] :
                    /\ e[ENABLE_NVFUSER] \in EnableValues
                    /\ e[USE_NNC_NOT_NVFUSER] \in NNCValues}
  /\ FBCODE_CAFFE2 \in BOOLEAN
  /\ USE_ROCM \in BOOLEAN
  /\ hasCUDA \in BOOLEAN
  /\ passManagerRegistered \in BOOLEAN
  /\ executorMode \in BOOLEAN
  /\ stack = <<>>
  /\ tensor = NoTensor
  /\ grad_mode = TRUE
  /\ guard_tensor_type = NoGuard

(* The enabler state a call of isEnabledImpl leaves behind.                *)
ApplyIsEnabledImpl(r) ==
  /\ enabled_check_flag_' = r.enabled_check_flag_
  /\ enable_c_str' = r.enable_c_str
  /\ default_enabled' = r.default_enabled
  /\ env_c_str' = r.env_c_str
  /\ force_disable' = r.force_disable

Returns(name, a, t, v, cs) ==
  /\ op' = name /\ arg' = a /\ target' = t
  /\ outcome' = "return" /\ ret' = v /\ error' = "" /\ calls' = cs

ReturnsVoid(name, a, t, cs) ==
  /\ op' = name /\ arg' = a /\ target' = t
  /\ outcome' = "void" /\ ret' = FALSE /\ error' = "" /\ calls' = cs

Throws(name, a, t, msg) ==
  /\ op' = name /\ arg' = a /\ target' = t
  /\ outcome' = "throw" /\ ret' = FALSE /\ error' = msg /\ calls' = <<>>

IsEnabled ==
  LET r == isEnabledImpl IN
  /\ ApplyIsEnabledImpl(r)
  /\ IF r.throws THEN Throws("isEnabled", FALSE, "", ERR_CUDA_BUILD)
     ELSE Returns("isEnabled", FALSE, "", r.ret, <<>>)
  /\ UNCHANGED <<runtime_assigned_fuser_enabled_, worldVars, flagVars,
                 fuser_interface_, stack, guardVars,
                 dispatchVars, softmaxVars>>

(* Mutant: the value is stored before the check. *)
SetEnabled_AssignFirst(is_enabled) ==
  LET r == isEnabledImpl IN
  /\ runtime_assigned_fuser_enabled_' = Some(is_enabled)
  /\ IF assertFuserCanBeEnabledThrows(is_enabled)
     THEN /\ Throws("setEnabled", is_enabled, "", ERR_CUDA_BUILD)
          /\ UNCHANGED <<enabled_check_flag_, enable_c_str, default_enabled,
                         env_c_str, force_disable>>
     ELSE /\ ApplyIsEnabledImpl(r)
          /\ IF r.throws
             THEN Throws("setEnabled", is_enabled, "", ERR_CUDA_BUILD)
             ELSE Returns("setEnabled", is_enabled, "", r.ret, <<>>)
  /\ UNCHANGED <<worldVars, flagVars, fuser_interface_, stack, guardVars,
                 dispatchVars, softmaxVars>>

SetEnabled(is_enabled) ==
  LET r == isEnabledImpl IN
  /\ IF assertFuserCanBeEnabledThrows(is_enabled)
     THEN /\ Throws("setEnabled", is_enabled, "", ERR_CUDA_BUILD)
          /\ UNCHANGED enablerVars
     ELSE /\ ApplyIsEnabledImpl(r)
          /\ IF r.throws
             THEN /\ Throws("setEnabled", is_enabled, "", ERR_CUDA_BUILD)
                  /\ UNCHANGED runtime_assigned_fuser_enabled_
             ELSE /\ Returns("setEnabled", is_enabled, "", r.ret, <<>>)
                  /\ runtime_assigned_fuser_enabled_' = Some(is_enabled)
  /\ UNCHANGED <<worldVars, flagVars, fuser_interface_, stack, guardVars,
                 dispatchVars, softmaxVars>>

GetSingletonFusion ==
  /\ Returns("getSingletonFusion", FALSE, "",
             FLAGS_torch_jit_nvfuser_singleton_fusion, <<>>)
  /\ UNCHANGED <<enablerVars, worldVars, flagVars, fuser_interface_, stack,
                 guardVars, dispatchVars, softmaxVars>>

(* Mutant: the new value is returned. *)
SetSingletonFusion_ReturnsNew(v) ==
  /\ Returns("setSingletonFusion", v, "", v, <<>>)
  /\ FLAGS_torch_jit_nvfuser_singleton_fusion' = v
  /\ UNCHANGED <<enablerVars, worldVars,
                 FLAGS_torch_jit_nvfuser_horizontal_fusion,
                 cuda_fusion_guard_mode, fuser_interface_, stack, guardVars,
                 dispatchVars, softmaxVars>>

SetSingletonFusion(v) ==
  /\ Returns("setSingletonFusion", v, "",
             FLAGS_torch_jit_nvfuser_singleton_fusion, <<>>)
  /\ FLAGS_torch_jit_nvfuser_singleton_fusion' = v
  /\ UNCHANGED <<enablerVars, worldVars,
                 FLAGS_torch_jit_nvfuser_horizontal_fusion,
                 cuda_fusion_guard_mode, fuser_interface_, stack, guardVars,
                 dispatchVars, softmaxVars>>

GetHorizontalFusion ==
  /\ Returns("getHorizontalFusion", FALSE, "",
             FLAGS_torch_jit_nvfuser_horizontal_fusion, <<>>)
  /\ UNCHANGED <<enablerVars, worldVars, flagVars, fuser_interface_, stack,
                 guardVars, dispatchVars, softmaxVars>>

SetHorizontalFusion(v) ==
  /\ Returns("setHorizontalFusion", v, "",
             FLAGS_torch_jit_nvfuser_horizontal_fusion, <<>>)
  /\ FLAGS_torch_jit_nvfuser_horizontal_fusion' = v
  /\ UNCHANGED <<enablerVars, worldVars,
                 FLAGS_torch_jit_nvfuser_singleton_fusion,
                 cuda_fusion_guard_mode, fuser_interface_, stack, guardVars,
                 dispatchVars, softmaxVars>>

GetCudaFusionGuardMode ==
  /\ Returns("getCudaFusionGuardMode", FALSE, "", cuda_fusion_guard_mode, <<>>)
  /\ UNCHANGED <<enablerVars, worldVars, flagVars, fuser_interface_, stack,
                 guardVars, dispatchVars, softmaxVars>>

(* One backend call as the log records it: which pointer, on what, and     *)
(* what the backend answered (FALSE for a void function).                  *)
Call(f, t, result) == [fn |-> f, on |-> t, result |-> result]

(* Mutant: the registration is checked before isEnabled(). *)
FuseGraph_CheckFirst(graph) ==
  LET r == isEnabledImpl IN
  /\ IF ~fuser_interface_["fn_fuse_graph"]
     THEN /\ Throws("fuseGraph", FALSE, graph, ERR_CUDA_FUSER)
          /\ UNCHANGED <<enabled_check_flag_, enable_c_str, default_enabled,
                         env_c_str, force_disable>>
     ELSE /\ ApplyIsEnabledImpl(r)
          /\ IF r.throws THEN Throws("fuseGraph", FALSE, graph, ERR_CUDA_BUILD)
             ELSE IF ~r.ret THEN ReturnsVoid("fuseGraph", FALSE, graph, <<>>)
             ELSE ReturnsVoid("fuseGraph", FALSE, graph,
                              <<Call("fn_fuse_graph", graph, FALSE)>>)
  /\ UNCHANGED <<runtime_assigned_fuser_enabled_, worldVars, flagVars,
                 fuser_interface_, stack, guardVars,
                 dispatchVars, softmaxVars>>

FuseGraph(graph) ==
  LET r == isEnabledImpl IN
  /\ ApplyIsEnabledImpl(r)
  /\ IF r.throws THEN Throws("fuseGraph", FALSE, graph, ERR_CUDA_BUILD)
     ELSE IF ~r.ret THEN ReturnsVoid("fuseGraph", FALSE, graph, <<>>)
     ELSE IF ~fuser_interface_["fn_fuse_graph"]
          THEN Throws("fuseGraph", FALSE, graph, ERR_CUDA_FUSER)
     ELSE ReturnsVoid("fuseGraph", FALSE, graph,
                      <<Call("fn_fuse_graph", graph, FALSE)>>)
  /\ UNCHANGED <<runtime_assigned_fuser_enabled_, worldVars, flagVars,
                 fuser_interface_, stack, guardVars,
                 dispatchVars, softmaxVars>>

(* The world outside this file: the backend library stores a function      *)
(* pointer, the process environment changes, the pass manager and the      *)
(* executor mode are switched.                                             *)
External ==
  /\ op' = "external" /\ arg' = FALSE /\ target' = ""
  /\ outcome' = "none" /\ ret' = FALSE /\ error' = "" /\ calls' = <<>>

RegisterFn(f) ==
  /\ ~fuser_interface_[f]
  /\ fuser_interface_' = [fuser_interface_ EXCEPT ![f] = TRUE]
  /\ External
  /\ UNCHANGED <<enablerVars, worldVars, flagVars, stack, guardVars,
                 dispatchVars, softmaxVars>>

Setenv(name, v) ==
  /\ environ[name] # v
  /\ environ' = [environ EXCEPT ![name] = v]
  /\ External
  /\ UNCHANGED <<enablerVars, FBCODE_CAFFE2, USE_ROCM, hasCUDA,
                 passManagerRegistered, executorMode, flagVars,
                 fuser_interface_, stack, guardVars,
                 dispatchVars, softmaxVars>>

SetPassManagerRegistered(b) ==
  /\ passManagerRegistered # b
  /\ passManagerRegistered' = b
  /\ External
  /\ UNCHANGED <<enablerVars, environ, FBCODE_CAFFE2, USE_ROCM, hasCUDA,
                 executorMode, flagVars, fuser_interface_, stack, guardVars,
                 dispatchVars, softmaxVars>>

SetExecutorMode(b) ==
  /\ executorMode # b
  /\ executorMode' = b
  /\ External
  /\ UNCHANGED <<enablerVars, environ, FBCODE_CAFFE2, USE_ROCM, hasCUDA,
                 passManagerRegistered, flagVars, fuser_interface_, stack,
                 guardVars, dispatchVars, softmaxVars>>

(* CudaFuserInterface forwarding functions. `result` is what the backend  *)
(* function answers when it is called.                                     *)
CompileFusionGroup(fusion_node) ==
  /\ IF ~fuser_interface_["fn_compile_n"]
     THEN Throws("compileFusionGroup", FALSE, fusion_node, ERR_CUDA_FUSER)
     ELSE ReturnsVoid("compileFusionGroup", FALSE, fusion_node,
                      <<Call("fn_compile_n", fusion_node, FALSE)>>)
  /\ UNCHANGED <<enablerVars, worldVars, flagVars, fuser_interface_, stack,
                 guardVars, dispatchVars, softmaxVars>>

(* fn_run_n_s pops the group's inputs and pushes its outputs: any stack.  *)
RunFusionGroup(fusion_node, stack_after) ==
  /\ IF ~fuser_interface_["fn_run_n_s"]
     THEN /\ Throws("runFusionGroup", FALSE, fusion_node, ERR_CUDA_FUSER)
          /\ UNCHANGED stack
     ELSE /\ ReturnsVoid("runFusionGroup", FALSE, fusion_node,
                         <<Call("fn_run_n_s", fusion_node, FALSE)>>)
          /\ stack' = stack_after
  /\ UNCHANGED <<enablerVars, worldVars, flagVars, fuser_interface_,
                 guardVars, dispatchVars, softmaxVars>>

CanFuseNode(node, result) ==
  /\ IF fuser_interface_["fn_can_fuse_n"]
     THEN Returns("canFuseNode", FALSE, node, result,
                  <<Call("fn_can_fuse_n", node, result)>>)
     ELSE Returns("canFuseNode", FALSE, node, FALSE, <<>>)
  /\ UNCHANGED <<enablerVars, worldVars, flagVars, fuser_interface_, stack,
                 guardVars, dispatchVars, softmaxVars>>

InsertProfileNodesForCUDAFuser(pr) ==
  /\ IF fuser_interface_["fn_insert_profile_inodes"]
     THEN ReturnsVoid("InsertProfileNodesForCUDAFuser", FALSE, pr,
                      <<Call("fn_insert_profile_inodes", pr, FALSE)>>)
     ELSE ReturnsVoid("InsertProfileNodesForCUDAFuser", FALSE, pr, <<>>)
  /\ UNCHANGED <<enablerVars, worldVars, flagVars, fuser_interface_, stack,
                 guardVars, dispatchVars, softmaxVars>>

(* Mutant: the backend's answer is dropped. *)
ProfileNode_DropsResult(node, result) ==
  /\ IF fuser_interface_["fn_profile_n"]
     THEN Returns("profileNode", FALSE, node, TRUE,
                  <<Call("fn_profile_n", node, result)>>)
     ELSE Returns("profileNode", FALSE, node, FALSE, <<>>)
  /\ UNCHANGED <<enablerVars, worldVars, flagVars, fuser_interface_, stack,
                 guardVars, dispatchVars, softmaxVars>>

ProfileNode(node, result) ==
  /\ IF fuser_interface_["fn_profile_n"]
     THEN Returns("profileNode", FALSE, node, result,
                  <<Call("fn_profile_n", node, result)>>)
     ELSE Returns("profileNode", FALSE, node, FALSE, <<>>)
  /\ UNCHANGED <<enablerVars, worldVars, flagVars, fuser_interface_, stack,
                 guardVars, dispatchVars, softmaxVars>>

SkipNode(symbol_str, flip, result) ==
  /\ IF fuser_interface_["fn_skip_n"]
     THEN Returns("skipNode", flip, symbol_str, result,
                  <<Call("fn_skip_n", symbol_str, result)>>)
     ELSE Returns("skipNode", flip, symbol_str, FALSE, <<>>)
  /\ UNCHANGED <<enablerVars, worldVars, flagVars, fuser_interface_, stack,
                 guardVars, dispatchVars, softmaxVars>>

----------------------------------------------------------------------------
(* complyWith: the type guard of CudaFusionGuard.                          *)
(* A tensor is [sizes, strides, scalar_type, device, requires_grad]; a     *)
(* guard type is [dim, scalarType, device, requiresGrad, sizes,            *)
(* stride_properties], its optional members being c10::optional values and *)
(* each stride property [stride_index_, contiguous_]. Dimensions are       *)
(* numbered from 0 as in the code: dimension j is element j + 1.           *)

ndimension(t) == Len(t.sizes)
t_sizes(t, d) == t.sizes[d + 1]
t_strides(t, d) == t.strides[d + 1]

(* Mutant: the tensor's requires_grad is compared whatever the grad mode.  *)
checkA_IgnoresGradMode(t, g) ==
  \/ value(g.dim) # ndimension(t)
  \/ (has_value(g.scalarType) /\ value(g.scalarType) # t.scalar_type)
  \/ (has_value(g.device) /\ value(g.device) # t.device)
  \/ (has_value(g.requiresGrad) /\ value(g.requiresGrad) # t.requires_grad)

(* check a: TRUE when complyWith returns false at once.                    *)
checkA(t, g) ==
  \/ value(g.dim) # ndimension(t)
  \/ (has_value(g.scalarType) /\ value(g.scalarType) # t.scalar_type)
  \/ (has_value(g.device) /\ value(g.device) # t.device)
  \/ (has_value(g.requiresGrad) /\
        value(g.requiresGrad) # (t.requires_grad /\ grad_mode))

sorted_index(g, j) ==
  IF has_value(g.stride_properties[j + 1].stride_index_)
  THEN value(g.stride_properties[j + 1].stride_index_)
  ELSE -1

(* check b.1: the stride order is broken at the j-th fastest dimension.    *)
checkB1(t, g, j, inner_dim) ==
  /\ j # 0 /\ inner_dim # -1
  /\ t_strides(t, sorted_index(g, j)) # 0
  /\ t_strides(t, inner_dim) # 0
  /\ t_strides(t, sorted_index(g, j)) < t_strides(t, inner_dim)

marked_contiguous(g, j) ==
  /\ has_value(g.stride_properties[j + 1].contiguous_)
  /\ value(g.stride_properties[j + 1].contiguous_)

(* check b.2 reaches the comparison with the inner dimension.              *)
checkB2_compares(t, g, j) ==
  /\ marked_contiguous(g, j) /\ j # 0
  /\ t_sizes(t, sorted_index(g, j)) # 1
  /\ t_strides(t, sorted_index(g, j)) # 1

(* TORCH_INTERNAL_ASSERT(stride_properties[j - 1]->stride_index_...) fails *)
checkB2_asserts(t, g, j) ==
  /\ checkB2_compares(t, g, j)
  /\ ~has_value(g.stride_properties[j].stride_index_)

(* check b.2: the contiguity marked by the guard is broken.                *)
checkB2(t, g, j, inner_dim) ==
  IF ~marked_contiguous(g, j) THEN FALSE
  ELSE IF j # 0
  THEN /\ checkB2_compares(t, g, j)
       /\ t_strides(t, sorted_index(g, j)) #
            t_strides(t, inner_dim) * t_sizes(t, inner_dim)
  ELSE t_strides(t, sorted_index(g, j)) # 1

(* Mutant: inner_dim follows every dimension, those of size 1 too.         *)
next_inner_dim_NoSkip(t, g, j, inner_dim) ==
  IF sorted_index(g, j) = -1 THEN inner_dim
  ELSE sorted_index(g, j)

next_inner_dim(t, g, j, inner_dim) ==
  IF sorted_index(g, j) = -1 THEN inner_dim
  ELSE IF inner_dim = -1 \/ t_sizes(t, sorted_index(g, j)) # 1
  THEN sorted_index(g, j)
  ELSE inner_dim

(* Mutant: the size-0 check is left out.                                   *)
checkC_NoSizeZero(t, g, j) ==
  LET guard_bcast == has_value(g.sizes[j + 1]) /\ value(g.sizes[j + 1]) = 1
  IN guard_bcast # (t_sizes(t, j) = 1)

(* checks c.1 and c.2: broadcast or size-0 semantics differ at j.          *)
checkC(t, g, j) ==
  LET guard_bcast == has_value(g.sizes[j + 1]) /\ value(g.sizes[j + 1]) = 1
      guard_size_0 == has_value(g.sizes[j + 1]) /\ value(g.sizes[j + 1]) = 0
  IN \/ guard_bcast # (t_sizes(t, j) = 1)
     \/ guard_size_0 # (t_sizes(t, j) = 0)

Returned(v) == [throws |-> FALSE, ret |-> v]
Asserted == [throws |-> TRUE, ret |-> FALSE]

(* The loop over the dimensions, from iteration j on.                      *)
RECURSIVE complyWithLoop(_, _, _, _)
complyWithLoop(t, g, j, inner_dim) ==
  IF j >= value(g.dim) THEN Returned(TRUE)
  ELSE IF sorted_index(g, j) # -1 /\ checkB1(t, g, j, inner_dim)
  THEN Returned(FALSE)
  ELSE IF sorted_index(g, j) # -1 /\ checkB2_asserts(t, g, j)
  THEN Asserted
  ELSE IF sorted_index(g, j) # -1 /\ checkB2(t, g, j, inner_dim)
  THEN Returned(FALSE)
  ELSE IF checkC(t, g, j) THEN Returned(FALSE)
  ELSE complyWithLoop(t, g, j + 1, next_inner_dim(t, g, j, inner_dim))

complyWith(t, g) ==
  IF ~has_value(g.dim) THEN Asserted
  ELSE IF checkA(t, g) THEN Returned(FALSE)
  ELSE complyWithLoop(t, g, 0, -1)

ComplyWith ==
  /\ op = "init"
  /\ LET r == complyWith(tensor, guard_tensor_type) IN
       IF r.throws THEN Throws("complyWith", FALSE, "", "INTERNAL ASSERT FAILED")
       ELSE Returns("complyWith", FALSE, "", r.ret, <<>>)
  /\ UNCHANGED <<enablerVars, worldVars, flagVars, fuser_interface_, stack,
                 guardVars, dispatchVars, softmaxVars>>

(* The tensors and guard types the model draws from.                       *)
MaxRank == 2
MaxSize == 2
MaxStride == 2
ScalarTypes == {"Float", "Half"}
Devices == {"cuda:0", "cuda:1"}
Optional(S) == {nullopt} \cup {Some(x) : x \in S}

(* The ranks over which sizes, strides and stride properties are drawn in  *)
(* every combination (the combinations of rank 3 are out of reach).        *)
ShapeRanks == {0, 1, 2}

(* sizes.size() == strides.size() for every at::Tensor.                    *)
TensorShapes ==
  UNION {[1..r -> 0..MaxSize] \X [1..r -> 0..MaxStride] : r \in ShapeRanks}

(* The row-major strides of a tensor of these sizes.                       *)
RECURSIVE contiguous_stride(_, _)
contiguous_stride(sizes, i) ==
  IF i >= Len(sizes) THEN 1
  ELSE contiguous_stride(sizes, i + 1) *
         (IF sizes[i + 1] = 0 THEN 1 ELSE sizes[i + 1])
contiguous_strides(sizes) ==
  [i \in 1..Len(sizes) |-> contiguous_stride(sizes, i)]

(* A stride property; the known stride indices of a type are distinct and  *)
(* below its rank.                                                         *)
StrideProperties(d) ==
  {sp \in [1..d -> [stride_index_ : Optional(0..(d - 1)),
                    contiguous_ : Optional(BOOLEAN)]] :
     \A i, k \in 1..d :
       (i # k /\ has_value(sp[i].stride_index_)) =>
         sp[i].stride_index_ # sp[k].stride_index_}

UnknownStrides(d) ==
  [i \in 1..d |-> [stride_index_ |-> nullopt, contiguous_ |-> nullopt]]

(* Inputs that vary the shape and the strides; the guard records no        *)
(* scalar type, device or requires-grad.                                   *)
ShapeInputs ==
  /\ \E sh \in TensorShapes :
       tensor = [sizes |-> sh[1], strides |-> sh[2], scalar_type |-> "Float",
                 device |-> "cuda:0", requires_grad |-> FALSE]
  /\ grad_mode = TRUE
  /\ \/ guard_tensor_type = NoGuard
     \/ \E d \in ShapeRanks :
          \E gs \in [1..d -> Optional(0..MaxSize)], sp \in StrideProperties(d) :
            guard_tensor_type =
              [dim |-> Some(d), scalarType |-> nullopt, device |-> nullopt,
               requiresGrad |-> nullopt, sizes |-> gs,
               stride_properties |-> sp]

(* Inputs that vary scalar type, device, requires-grad and grad mode over  *)
(* contiguous tensors and guards of every rank, all sizes being alike.     *)
TypeInputs ==
  /\ \E r \in 0..MaxRank, n \in 1..MaxSize :
       \E st \in ScalarTypes, dv \in Devices, rg \in BOOLEAN :
         tensor = [sizes |-> [i \in 1..r |-> n],
                   strides |-> contiguous_strides([i \in 1..r |-> n]),
                   scalar_type |-> st, device |-> dv, requires_grad |-> rg]
  /\ grad_mode \in BOOLEAN
  /\ \E d \in 0..MaxRank, gn \in Optional(1..MaxSize) :
       \E st \in Optional(ScalarTypes), dv \in Optional(Devices),
          rg \in Optional(BOOLEAN) :
         guard_tensor_type =
           [dim |-> Some(d), scalarType |-> st, device |-> dv,
            requiresGrad |-> rg, sizes |-> [i \in 1..d |-> gn],
            stride_properties |-> UnknownStrides(d)]

InitGuard ==
  /\ InitProgram
  /\ NoTask
  /\ environ = [n \in EnvNames |-> nullopt]
  /\ FBCODE_CAFFE2 = FALSE
  /\ USE_ROCM = FALSE
  /\ hasCUDA = TRUE
  /\ passManagerRegistered = FALSE
  /\ executorMode = TRUE
  /\ stack = <<>>
  /\ (ShapeInputs \/ TypeInputs)

NextGuard == ComplyWith

SpecGuard == InitGuard /\ [][NextGuard]_vars

(* Inputs for the contiguity check: tensors of rank 1 to 3 with every      *)
(* stride that a product of two sizes can give, under guards that recorded *)
(* the tensor's own sizes, a full stride order and any contiguity marks.   *)
ContigRanks == {1, 2, 3}
ContigStrides == {0} \cup {a * b : a, b \in 1..MaxSize}
StrideOrders(d) ==
  {p \in [1..d -> 0..(d - 1)] : \A i, k \in 1..d : i # k => p[i] # p[k]}

ContigInputs ==
  /\ \E r \in ContigRanks :
       \E sz \in [1..r -> 1..MaxSize], sd \in [1..r -> ContigStrides],
          p \in StrideOrders(r), c \in [1..r -> BOOLEAN] :
         /\ tensor = [sizes |-> sz, strides |-> sd, scalar_type |-> "Float",
                      device |-> "cuda:0", requires_grad |-> FALSE]
         /\ guard_tensor_type =
              [dim |-> Some(r), scalarType |-> nullopt, device |-> nullopt,
               requiresGrad |-> nullopt,
               sizes |-> [i \in 1..r |-> Some(sz[i])],
               stride_properties |->
                 [i \in 1..r |-> [stride_index_ |-> Some(p[i]),
                                  contiguous_ |-> Some(c[i])]]]
  /\ grad_mode = TRUE

InitContig ==
  /\ InitProgram
  /\ NoTask
  /\ environ = [n \in EnvNames |-> nullopt]
  /\ FBCODE_CAFFE2 = FALSE
  /\ USE_ROCM = FALSE
  /\ hasCUDA = TRUE
  /\ passManagerRegistered = FALSE
  /\ executorMode = TRUE
  /\ stack = <<>>
  /\ ContigInputs

NextContig == ComplyWith

SpecContig == InitContig /\ [][NextContig]_vars

----------------------------------------------------------------------------
(* torch/csrc/utils/python_dispatch.cpp: parseKind, parseAliasAnalysisKind *)

(* The initialiser list of the static kind_map.                            *)
kind_map_initializer ==
  ("DEF" :> "torch::Library::DEF") @@
  ("IMPL" :> "torch::Library::IMPL") @@
  ("FRAGMENT" :> "torch::Library::FRAGMENT")

(* Mutant: the table of parseAliasAnalysisKind without its default entry.  *)
key_map_NoDefault ==
  ("CONSERVATIVE" :> "c10::AliasAnalysisKind::CONSERVATIVE") @@
  ("FROM_SCHEMA" :> "c10::AliasAnalysisKind::FROM_SCHEMA") @@
  ("PURE_FUNCTION" :> "c10::AliasAnalysisKind::PURE_FUNCTION")

(* The initialiser list of the static key_map.                             *)
key_map_initializer ==
  ("CONSERVATIVE" :> "c10::AliasAnalysisKind::CONSERVATIVE") @@
  ("FROM_SCHEMA" :> "c10::AliasAnalysisKind::FROM_SCHEMA") @@
  ("PURE_FUNCTION" :> "c10::AliasAnalysisKind::PURE_FUNCTION") @@
  ("" :> "c10::AliasAnalysisKind::FROM_SCHEMA")

(* std::unordered_map::find: the mapped value, nullopt for end().          *)
find(m, k) == IF k \in DOMAIN m THEN Some(m[k]) ELSE nullopt

(* A function-local static map: initialised by the first call, then kept.  *)
static_map(s, initializer) == IF s = uninitialized THEN initializer ELSE value(s)

COULD_NOT_PARSE == "could not parse "

ParseKind(k) ==
  LET m == static_map(kind_map, kind_map_initializer)
      it == find(m, k)
  IN /\ kind_map' = <<m>>
     /\ IF ~has_value(it) THEN Throws("parseKind", FALSE, k, COULD_NOT_PARSE \o k)
        ELSE Returns("parseKind", FALSE, k, value(it), <<>>)
     /\ UNCHANGED <<enablerVars, worldVars, flagVars, fuser_interface_, stack,
                    guardVars, key_map, softmaxVars>>

ParseAliasAnalysisKind(k) ==
  LET m == static_map(key_map, key_map_initializer)
      it == find(m, k)
  IN /\ key_map' = <<m>>
     /\ IF ~has_value(it)
        THEN Throws("parseAliasAnalysisKind", FALSE, k, COULD_NOT_PARSE \o k)
        ELSE Returns("parseAliasAnalysisKind", FALSE, k, value(it), <<>>)
     /\ UNCHANGED <<enablerVars, worldVars, flagVars, fuser_interface_, stack,
                    guardVars, kind_map, softmaxVars>>

(* The strings handed to the parsers: every key of both tables, the empty  *)
(* string, and strings that differ from a key in case, by blanks, by a     *)
(* prefix or a suffix, or that name an enumerator the tables do not hold.  *)
ParserInputs ==
  {"DEF", "IMPL", "FRAGMENT", "CONSERVATIVE", "FROM_SCHEMA", "PURE_FUNCTION",
   "", " ", "def", "impl", "fragment", "Def", "DEF ", " DEF", "DE", "DEFS",
   "IMPLS", "FRAGMENTS", "conservative", "from_schema", "pure_function",
   "FROM SCHEMA", "FROM_SCHEMA ", "PURE", "PURE_FUNCTIONS",
   "INTERNAL_SPECIAL_CASE", "torch::Library::DEF",
   "c10::AliasAnalysisKind::FROM_SCHEMA", "0", "None"}

InitDispatch ==
  /\ InitProgram
  /\ NoTask
  /\ environ = [n \in EnvNames |-> nullopt]
  /\ FBCODE_CAFFE2 = FALSE
  /\ USE_ROCM = FALSE
  /\ hasCUDA = TRUE
  /\ passManagerRegistered = FALSE
  /\ executorMode = TRUE
  /\ stack = <<>>
  /\ tensor = NoTensor
  /\ grad_mode = TRUE
  /\ guard_tensor_type = NoGuard

NextDispatch ==
  \/ \E k \in ParserInputs : ParseKind(k)
  \/ \E k \in ParserInputs : ParseAliasAnalysisKind(k)

SpecDispatch == InitDispatch /\ [][NextDispatch]_vars

----------------------------------------------------------------------------
(* aten/src/ATen/native/cpu/SoftMaxKernel.cpp: the index loop that         *)
(* _vec_softmax runs for one parallel_for task [begin, end).  The generic  *)
(* and the BFloat16 version walk the flat index the same way; the values   *)
(* computed along dim (dim_size, the strides) do not steer the loop.       *)

outer_idx_of(i) == i \div inner_size
inner_idx_of(i) == i % inner_size

(* Mutant: a group is taken whenever it fits in the task.                  *)
vectorizable_NoRowCheck(i) == (i + vectorized_step) <= end

(* The condition of the vectorized branch.                                 *)
vectorizable(i) ==
  /\ (inner_idx_of(i) + vectorized_step) <= inner_size
  /\ (i + vectorized_step) <= end

(* Case 1: the task ends first.  Case 2: the row ends first.               *)
tail_number(i) ==
  IF (i + vectorized_step) > end THEN end - i
  ELSE inner_size - inner_idx_of(i)

(* c10::irange(n) as a sequence: 0, 1, ..., n - 1; empty for n <= 0.       *)
irange(n) == [k \in 1..n |-> k - 1]

(* The flat index of the element at (outer_idx, inner_idx).                *)
flat(outer_idx, inner_idx) == outer_idx * inner_size + inner_idx

(* The lanes of Vec::loadu / store at (outer_idx, inner_idx).              *)
vector_lanes(i) ==
  [l \in 1..vectorized_step |->
     flat(outer_idx_of(i), inner_idx_of(i) + (l - 1))]

(* The elements the scalar loop visits: (idx + i) / and % inner_size.      *)
tail_lanes(i) ==
  LET r == irange(tail_number(i))
  IN [n \in 1..Len(r) |-> flat(outer_idx_of(i + r[n]), inner_idx_of(i + r[n]))]

VectorStep ==
  /\ idx < end
  /\ vectorizable(idx)
  /\ handled' = handled \o vector_lanes(idx)
  /\ idx' = idx + vectorized_step
  /\ step_kind' = "vector"
  /\ step_idx' = idx
  /\ UNCHANGED <<outer_size, inner_size, vectorized_step, begin, end>>
  /\ UNCHANGED <<enablerVars, worldVars, flagVars, fuser_interface_, stack,
                 callVars, guardVars, dispatchVars>>

TailStep ==
  /\ idx < end
  /\ ~vectorizable(idx)
  /\ handled' = handled \o tail_lanes(idx)
  /\ idx' = idx + tail_number(idx)
  /\ step_kind' = "tail"
  /\ step_idx' = idx
  /\ UNCHANGED <<outer_size, inner_size, vectorized_step, begin, end>>
  /\ UNCHANGED <<enablerVars, worldVars, flagVars, fuser_interface_, stack,
                 callVars, guardVars, dispatchVars>>

(* The tasks the model draws from: every range of every problem up to      *)
(* MaxOuter rows of up to MaxInner elements, vectors of up to MaxStep.     *)
MaxOuter == 2
MaxInner == 4
MaxStep == 4

InitSoftmax ==
  /\ InitProgram
  /\ environ = [n \in EnvNames |-> nullopt]
  /\ FBCODE_CAFFE2 = FALSE
  /\ USE_ROCM = FALSE
  /\ hasCUDA = TRUE
  /\ passManagerRegistered = FALSE
  /\ executorMode = TRUE
  /\ stack = <<>>
  /\ tensor = NoTensor
  /\ grad_mode = TRUE
  /\ guard_tensor_type = NoGuard
  /\ outer_size \in 0..MaxOuter
  /\ inner_size \in 1..MaxInner
  /\ vectorized_step \in 1..MaxStep
  /\ begin \in 0..(outer_size * inner_size)
  /\ end \in begin..(outer_size * inner_size)
  /\ idx = begin
  /\ handled = <<>>
  /\ step_kind = "none"
  /\ step_idx = begin

NextSoftmax == VectorStep \/ TailStep

(* The task's thread runs the loop body for as long as idx < end.          *)
SpecSoftmax == InitSoftmax /\ [][NextSoftmax]_vars /\ WF_vars(NextSoftmax)

----------------------------------------------------------------------------
(* Spec: the enabler in a changing environment.                            *)
Next ==
  \/ IsEnabled
  \/ \E v \in BOOLEAN : SetEnabled(v)
  \/ \E v \in EnableValues : Setenv(ENABLE_NVFUSER, v)
  \/ \E v \in NNCValues : Setenv(USE_NNC_NOT_NVFUSER, v)
  \/ \E b \in BOOLEAN : SetPassManagerRegistered(b)
  \/ \E b \in BOOLEAN : SetExecutorMode(b)

Spec == Init /\ [][Next]_vars

(* SpecApi: the setters, the getters and fuseGraph, the environment being  *)
(* the one the process started with.                                       *)
NextApi ==
  \/ IsEnabled
  \/ \E v \in BOOLEAN : SetEnabled(v)
  \/ GetSingletonFusion
  \/ \E v \in BOOLEAN : SetSingletonFusion(v)
  \/ GetHorizontalFusion
  \/ \E v \in BOOLEAN : SetHorizontalFusion(v)
  \/ GetCudaFusionGuardMode
  \/ \E g \in Targets : FuseGraph(g)
  \/ RegisterFn("fn_fuse_graph")
  \/ \E b \in BOOLEAN : SetPassManagerRegistered(b)
  \/ \E b \in BOOLEAN : SetExecutorMode(b)

InitApi ==
  /\ InitProgram
  /\ NoTask
  /\ environ \in {e \in [EnvNames -> EnableValues \cup NNCValues] :
                    /\ e[ENABLE_NVFUSER] \in EnableValues
                    /\ e[USE_NNC_NOT_NVFUSER] \in NNCValues}
  /\ FBCODE_CAFFE2 = FALSE
  /\ USE_ROCM = FALSE
  /\ hasCUDA \in BOOLEAN
  /\ passManagerRegistered \in BOOLEAN
  /\ executorMode \in BOOLEAN
  /\ stack = <<>>
  /\ tensor = NoTensor
  /\ grad_mode = TRUE
  /\ guard_tensor_type = NoGuard

SpecApi == InitApi /\ [][NextApi]_vars

(* SpecInterface: the forwarding functions while the backend registers.    *)
InitInterface ==
  /\ InitProgram
  /\ NoTask
  /\ environ = [n \in EnvNames |-> nullopt]
  /\ FBCODE_CAFFE2 = FALSE
  /\ USE_ROCM = FALSE
  /\ hasCUDA \in BOOLEAN
  /\ passManagerRegistered = FALSE
  /\ executorMode = TRUE
  /\ stack \in StackValues
  /\ tensor = NoTensor
  /\ grad_mode = TRUE
  /\ guard_tensor_type = NoGuard

NextInterface ==
  \/ \E f \in FnNames : RegisterFn(f)
  \/ \E n \in Targets : CompileFusionGroup(n)
  \/ \E n \in Targets, st \in StackValues : RunFusionGroup(n, st)
  \/ \E n \in Targets, r \in BOOLEAN : CanFuseNode(n, r)
  \/ \E pr \in Targets : InsertProfileNodesForCUDAFuser(pr)
  \/ \E n \in Targets, r \in BOOLEAN : ProfileNode(n, r)
  \/ \E sym \in Targets, flip \in BOOLEAN, r \in BOOLEAN : SkipNode(sym, flip, r)

SpecInterface == InitInterface /\ [][NextInterface]_vars

----------------------------------------------------------------------------
(* Properties of the enabler (checked under Spec).                         *)

(* The strings of PYTORCH_JIT_ENABLE_NVFUSER that switch the fuser off.    *)
OffStrings == {"0", "OFF"}
(* The strings of PYTORCH_JIT_USE_NNC_NOT_NVFUSER that force it off.       *)
ForceStrings == {"1", "ON"}

(* What the process read from the two variables, if it has read them.      *)
EnableRead == enable_c_str # uninitialized
EnableString == value(enable_c_str)
RequestsEnable ==
  EnableRead /\ has_value(EnableString) /\ value(EnableString) \notin OffStrings
RequestsDisable ==
  EnableRead /\ has_value(EnableString) /\ value(EnableString) \in OffStrings
EnableUnset == EnableRead /\ ~has_value(EnableString)
ForceDisabled ==
  /\ env_c_str # uninitialized
  /\ has_value(value(env_c_str))
  /\ value(value(env_c_str)) \in ForceStrings

CanBeEnabledNow ==
  ~USE_ROCM /\ hasCUDA /\ passManagerRegistered /\ executorMode

Assigned == has_value(runtime_assigned_fuser_enabled_)
AssignedValue == value(runtime_assigned_fuser_enabled_)

EnableCacheStable ==
  /\ (enable_c_str # uninitialized) => (enable_c_str' = enable_c_str)
  /\ (default_enabled # uninitialized) => (default_enabled' = default_enabled)
  /\ (default_enabled' # uninitialized) => (enable_c_str' # uninitialized)

C4_FailedSetEnabledChangesNothing ==
  [][ (op' = "setEnabled" /\ arg' = TRUE /\ ~CanBeEnabledNow) =>
        /\ outcome' = "throw"
        /\ error' = ERR_CUDA_BUILD
        /\ enablerVars' = enablerVars
        /\ isEnabledImpl' = isEnabledImpl ]_vars

(* A failed setEnabled(true) after a successful setEnabled(false).         *)
C4_Witness ==
  /\ op = "setEnabled" /\ arg = TRUE /\ outcome = "throw"
  /\ ~CanBeEnabledNow
  /\ Assigned /\ AssignedValue = FALSE

(* C5: while the once-only check has not passed, an isEnabled() with       *)
(* nothing assigned, the variable requesting the fuser and nvfuser not     *)
(* enableable raises and leaves the check to be made again; once the check *)
(* has passed it stays passed and isEnabled() never raises.                *)
C5_CheckUntilItPasses ==
  [][ /\ (op' = "isEnabled" /\ ~enabled_check_flag_ /\ ~Assigned
            /\ RequestsEnable' /\ ~CanBeEnabledNow) =>
           (outcome' = "throw" /\ error' = ERR_CUDA_BUILD
              /\ ~enabled_check_flag_')
      /\ (op' = "isEnabled" /\ outcome' = "return") => enabled_check_flag_'
      /\ (op' = "isEnabled" /\ enabled_check_flag_) => (outcome' = "return")
      /\ enabled_check_flag_ => enabled_check_flag_' ]_vars

(* The check has passed earlier; now the variable requests the fuser,      *)
(* nvfuser cannot be enabled, and isEnabled() returns true all the same.   *)
C5_Witness ==
  /\ op = "isEnabled" /\ outcome = "return" /\ ret = TRUE
  /\ ~Assigned /\ RequestsEnable /\ ~CanBeEnabledNow
  /\ enabled_check_flag_

----------------------------------------------------------------------------
(* Properties of the setters and of fuseGraph (checked under SpecApi).     *)

(* C6: setEnabled(v) returns what isEnabled() would have returned just     *)
(* before and stores v; setSingletonFusion(v) and setHorizontalFusion(v)   *)
(* return the flag's previous value and the getter then returns v; at      *)
(* start singleton fusion is off, horizontal fusion and the guard mode on. *)
C6_SettersReturnPrevious ==
  /\ FLAGS_torch_jit_nvfuser_singleton_fusion = FALSE
  /\ FLAGS_torch_jit_nvfuser_horizontal_fusion = TRUE
  /\ cuda_fusion_guard_mode = TRUE
  /\ [][ /\ (op' = "setEnabled" /\ outcome' = "return") =>
              /\ ~isEnabledImpl.throws
              /\ ret' = isEnabledImpl.ret
              /\ runtime_assigned_fuser_enabled_' = Some(arg')
         /\ (op' = "setSingletonFusion") =>
              /\ outcome' = "return"
              /\ ret' = FLAGS_torch_jit_nvfuser_singleton_fusion
              /\ FLAGS_torch_jit_nvfuser_singleton_fusion' = arg'
         /\ (op' = "getSingletonFusion") =>
              (ret' = FLAGS_torch_jit_nvfuser_singleton_fusion')
         /\ (op' = "setHorizontalFusion") =>
              /\ outcome' = "return"
              /\ ret' = FLAGS_torch_jit_nvfuser_horizontal_fusion
              /\ FLAGS_torch_jit_nvfuser_horizontal_fusion' = arg'
         /\ (op' = "getHorizontalFusion") =>
              (ret' = FLAGS_torch_jit_nvfuser_horizontal_fusion')
         /\ (op' = "getCudaFusionGuardMode") =>
              (ret' = cuda_fusion_guard_mode')
       ]_vars

(* setSingletonFusion(false) handing back the TRUE an earlier call stored. *)
C6_Witness ==
  /\ op = "setSingletonFusion" /\ arg = FALSE /\ ret = TRUE
  /\ FLAGS_torch_jit_nvfuser_singleton_fusion = FALSE
  /\ Assigned

(* C7: fuseGraph does nothing, registered backend or not, when isEnabled() *)
(* is false; when it is true it calls fn_fuse_graph once on the graph, or  *)
(* raises "Running the CUDA fuser requires a CUDA build." if none is       *)
(* registered.                                                             *)
C7_FuseGraphOnlyWhenEnabled ==
  [][ (op' = "fuseGraph") =>
        /\ (~isEnabledImpl.throws /\ ~isEnabledImpl.ret) =>
             (outcome' = "void" /\ calls' = <<>>)
        /\ (~isEnabledImpl.throws /\ isEnabledImpl.ret
              /\ fuser_interface_["fn_fuse_graph"]) =>
             /\ outcome' = "void"
             /\ calls' = <<Call("fn_fuse_graph", target', FALSE)>>
        /\ (~isEnabledImpl.throws /\ isEnabledImpl.ret
              /\ ~fuser_interface_["fn_fuse_graph"]) =>
             (outcome' = "throw" /\ error' = ERR_CUDA_FUSER /\ calls' = <<>>)
    ]_vars

(* Disabled and no backend registered: fuseGraph returns quietly.          *)
C7_Witness ==
  /\ op = "fuseGraph" /\ outcome = "void" /\ calls = <<>>
  /\ ~fuser_interface_["fn_fuse_graph"]

----------------------------------------------------------------------------
(* Properties of the forwarding functions (checked under SpecInterface).   *)

(* C8: with no backend function registered, compileFusionGroup and         *)
(* runFusionGroup raise and touch neither node nor stack, canFuseNode,     *)
(* profileNode and skipNode return false and                               *)
(* InsertProfileNodesForCUDAFuser does nothing; with one registered each   *)
(* forwards to it exactly once and returns its result.                     *)
Forwards(name, f, void) ==
  (op' = name) =>
    IF fuser_interface_[f]
    THEN /\ Len(calls') = 1
         /\ calls'[1].fn = f
         /\ calls'[1].on = target'
         /\ IF void THEN outcome' = "void"
            ELSE outcome' = "return" /\ ret' = calls'[1].result
    ELSE /\ calls' = <<>>
         /\ stack' = stack

C8_ForwardOrRefuse ==
  [][ /\ Forwards("compileFusionGroup", "fn_compile_n", TRUE)
      /\ Forwards("runFusionGroup", "fn_run_n_s", TRUE)
      /\ Forwards("canFuseNode", "fn_can_fuse_n", FALSE)
      /\ Forwards("InsertProfileNodesForCUDAFuser",
                  "fn_insert_profile_inodes", TRUE)
      /\ Forwards("profileNode", "fn_profile_n", FALSE)
      /\ Forwards("skipNode", "fn_skip_n", FALSE)
      /\ (op' \in {"compileFusionGroup", "runFusionGroup"}
            /\ ~fuser_interface_[IF op' = "compileFusionGroup"
                                 THEN "fn_compile_n" ELSE "fn_run_n_s"]) =>
           (outcome' = "throw" /\ error' = ERR_CUDA_FUSER)
      /\ (op' \in {"canFuseNode", "profileNode", "skipNode"}
            /\ ~fuser_interface_[CASE op' = "canFuseNode" -> "fn_can_fuse_n"
                                   [] op' = "profileNode" -> "fn_profile_n"
                                   [] OTHER -> "fn_skip_n"]) =>
           (outcome' = "return" /\ ret' = FALSE)
      /\ (op' = "InsertProfileNodesForCUDAFuser"
            /\ ~fuser_interface_["fn_insert_profile_inodes"]) =>
           (outcome' = "void")
    ]_vars

(* profileNode handing back the FALSE its registered backend answered.     *)
C8_Witness ==
  /\ op = "profileNode" /\ outcome = "return" /\ ret = FALSE
  /\ fuser_interface_["fn_profile_n"]
  /\ Len(calls) = 1 /\ calls[1].result = FALSE
  /\ ~fuser_interface_["fn_run_n_s"]

----------------------------------------------------------------------------
(* Properties of complyWith (checked under SpecGuard).                     *)

Complied == op = "complyWith" /\ outcome = "return"
GuardRank == value(guard_tensor_type.dim)

(* The same tensor with another scalar type, device or requires-grad.      *)
WithScalarType(st) == [tensor EXCEPT !.scalar_type = st]
WithDevice(dv) == [tensor EXCEPT !.device = dv]
WithRequiresGrad(rg) == [tensor EXCEPT !.requires_grad = rg]

(* C9: complyWith returns false whenever the ranks differ or the guard     *)
(* records a scalar type, a device or a requires-grad flag other than the  *)
(* tensor's (its requires-grad counting only in grad mode); an attribute   *)
(* the guard does not record never changes the answer.                     *)
C9_TypeCheck ==
  Complied =>
    /\ (GuardRank # Len(tensor.sizes)) => (ret = FALSE)
    /\ (guard_tensor_type.scalarType \notin {nullopt, Some(tensor.scalar_type)})
         => (ret = FALSE)
    /\ (guard_tensor_type.device \notin {nullopt, Some(tensor.device)})
         => (ret = FALSE)
    /\ (guard_tensor_type.requiresGrad \notin
          {nullopt, Some(tensor.requires_grad /\ grad_mode)}) => (ret = FALSE)
    /\ (guard_tensor_type.scalarType = nullopt) =>
         \A st \in ScalarTypes :
           complyWith(WithScalarType(st), guard_tensor_type) = Returned(ret)
    /\ (guard_tensor_type.device = nullopt) =>
         \A dv \in Devices :
           complyWith(WithDevice(dv), guard_tensor_type) = Returned(ret)
    /\ (guard_tensor_type.requiresGrad = nullopt) =>
         \A rg \in BOOLEAN :
           complyWith(WithRequiresGrad(rg), guard_tensor_type) = Returned(ret)

(* Outside grad mode a tensor that requires grad is refused by a guard     *)
(* recorded with requires-grad, all else being equal.                      *)
C9_Witness ==
  /\ Complied /\ ret = FALSE
  /\ GuardRank = Len(tensor.sizes) /\ GuardRank = 2
  /\ guard_tensor_type.scalarType = Some(tensor.scalar_type)
  /\ guard_tensor_type.device = Some(tensor.device)
  /\ tensor.requires_grad /\ ~grad_mode
  /\ guard_tensor_type.requiresGrad = Some(TRUE)
  /\ complyWith(WithRequiresGrad(FALSE),
                [guard_tensor_type EXCEPT !.requiresGrad = Some(FALSE)])
       = Returned(TRUE)

(* C10: complyWith returns true only if, in every dimension, the guard's   *)
(* size is 1 exactly when the tensor's is 1 and 0 exactly when the         *)
(* tensor's is 0, an unknown guard size being neither.                     *)
C10_BroadcastAndEmptyAgree ==
  (Complied /\ ret = TRUE) =>
    /\ GuardRank = Len(tensor.sizes)
    /\ \A j \in 1..GuardRank :
         /\ (guard_tensor_type.sizes[j] = Some(1)) <=> (tensor.sizes[j] = 1)
         /\ (guard_tensor_type.sizes[j] = Some(0)) <=> (tensor.sizes[j] = 0)

(* Accepted: an empty dimension under a guard that recorded size 0 and a   *)
(* dimension of unknown guard size, with stride properties recorded.       *)
C10_Witness ==
  /\ Complied /\ ret = TRUE
  /\ GuardRank = 2
  /\ guard_tensor_type.sizes = <<Some(0), nullopt>>
  /\ tensor.sizes = <<0, 2>>
  /\ has_value(guard_tensor_type.stride_properties[1].stride_index_)
  /\ has_value(guard_tensor_type.stride_properties[2].stride_index_)

----------------------------------------------------------------------------
(* Contiguity (checked under SpecContig).                                  *)

(* The dimension at stride-order position j (0 the fastest), -1 unknown.   *)
DimAt(j) == sorted_index(guard_tensor_type, j)

(* The stride-order positions before j whose dimension is known.           *)
FasterPositions(j) == {k \in 0..(j - 1) : DimAt(k) # -1}
Largest(S) == CHOOSE x \in S : \A y \in S : y <= x
Smallest(S) == CHOOSE x \in S : \A y \in S : x <= y

(* The dimension position j is compared with: the nearest faster one whose *)
(* size is not 1 or, when all faster ones have size 1, the fastest.        *)
InnerPositionOf(j) ==
  LET wide == {k \in FasterPositions(j) : tensor.sizes[DimAt(k) + 1] # 1}
  IN IF wide # {} THEN Largest(wide) ELSE Smallest(FasterPositions(j))

ContiguousAt(j) ==
  LET d == DimAt(j) + 1 IN
  IF j = 0 THEN tensor.strides[d] = 1
  ELSE (tensor.sizes[d] # 1 /\ tensor.strides[d] # 1) =>
         LET i == DimAt(InnerPositionOf(j)) + 1 IN
         tensor.strides[d] = tensor.strides[i] * tensor.sizes[i]

----------------------------------------------------------------------------
(* The kinds the two parsers are to give, and what a call leaves behind.   *)
KindOf(k) ==
  CASE k = "DEF" -> "torch::Library::DEF"
    [] k = "IMPL" -> "torch::Library::IMPL"
    [] k = "FRAGMENT" -> "torch::Library::FRAGMENT"

AliasAnalysisKindOf(k) ==
  CASE k = "CONSERVATIVE" -> "c10::AliasAnalysisKind::CONSERVATIVE"
    [] k = "FROM_SCHEMA" -> "c10::AliasAnalysisKind::FROM_SCHEMA"
    [] k = "PURE_FUNCTION" -> "c10::AliasAnalysisKind::PURE_FUNCTION"
    [] k = "" -> "c10::AliasAnalysisKind::FROM_SCHEMA"

Parsed(accepted, kindOf(_)) ==
  IF target \in accepted THEN outcome = "return" /\ ret = kindOf(target)
  ELSE outcome = "throw" /\ error = "could not parse " \o target

TableHolds(table, keys, kindOf(_)) ==
  has_value(table) =>
    /\ DOMAIN value(table) = keys
    /\ \A k \in keys : value(table)[k] = kindOf(k)

(* C12: parseKind returns a kind exactly for "DEF", "IMPL" and "FRAGMENT"; *)
(* parseAliasAnalysisKind returns a kind exactly for "CONSERVATIVE",       *)
(* "FROM_SCHEMA", "PURE_FUNCTION" and the empty string, which stands for   *)
(* FROM_SCHEMA; on every other string either one throws an error that      *)
(* starts with "could not parse " and ends with the string; and no call    *)
(* changes the contents of either lookup table.                            *)
C12_ParsersAcceptExactly ==
  /\ op = "parseKind" => Parsed({"DEF", "IMPL", "FRAGMENT"}, KindOf)
  /\ op = "parseAliasAnalysisKind" =>
       Parsed({"CONSERVATIVE", "FROM_SCHEMA", "PURE_FUNCTION", ""},
              AliasAnalysisKindOf)
  /\ TableHolds(kind_map, {"DEF", "IMPL", "FRAGMENT"}, KindOf)
  /\ TableHolds(key_map, {"CONSERVATIVE", "FROM_SCHEMA", "PURE_FUNCTION", ""},
                AliasAnalysisKindOf)

(* The empty string parsed to FROM_SCHEMA after parseKind has refused a    *)
(* string, both tables in use.                                             *)
C12_Witness ==
  /\ op = "parseAliasAnalysisKind" /\ target = ""
  /\ outcome = "return" /\ ret = "c10::AliasAnalysisKind::FROM_SCHEMA"
  /\ has_value(kind_map) /\ has_value(key_map)

----------------------------------------------------------------------------
(* How often flat index i has been handled so far.                         *)
TimesHandled(i) == Cardinality({n \in 1..Len(handled) : handled[n] = i})

InTask(i) == begin <= i /\ i < end

LoopDone == idx >= end

(* The lanes of the last vectorized group lie in one outer row.            *)
GroupInOneRow ==
  step_kind = "vector" =>
    /\ (step_idx % inner_size) + vectorized_step <= inner_size
    /\ \A l \in 0..(vectorized_step - 1) :
         (step_idx + l) \div inner_size = step_idx \div inner_size

HandledOnce ==
  /\ \A n \in 1..Len(handled) : InTask(handled[n]) /\ TimesHandled(handled[n]) = 1
  /\ LoopDone => \A i \in begin..(end - 1) : TimesHandled(i) = 1

(* C13: for every task range [begin, end) within outer_size * inner_size,  *)
(* with inner_size >= 1 and vectorized_step >= 1, the index loop of        *)
(* _vec_softmax terminates; when it has, every flat index of [begin, end)  *)
(* was handled exactly once, as a lane of a vectorized group or in the     *)
(* scalar tail; no index outside the range is ever handled, none twice;    *)
(* and a vectorized group never spans two outer rows.                      *)
C13_LoopCoversTaskOnce == [](HandledOnce /\ GroupInOneRow) /\ <>LoopDone

(* A task over two rows of three with vectors of two has finished: each    *)
(* row gave one vectorized group and one scalar tail.                      *)
C13_Witness ==
  /\ LoopDone
  /\ outer_size = 2 /\ inner_size = 3 /\ vectorized_step = 2
  /\ begin = 0 /\ end = 6
  /\ handled = <<0, 1, 2, 3, 4, 5>>
  /\ step_kind = "tail"

====
